---- MODULE Spec2Model ----
(***************************************************************************)
(* Clonal CNV profile store of sccnvsim/utils/xcnv.py.                     *)
(*                                                                         *)
(* CloneCNVProfile.dat maps a clone ID to one CNVProfile; a CNVProfile     *)
(* owns one RegionSet (utils/grange.py), an unordered collection of        *)
(* regions.  Python strings that are ordered by the program (chromosome    *)
(* names, clone IDs) are tuples of character codes, compared as Python     *)
(* compares str; region names are only compared for equality and stay      *)
(* TLA+ strings.                                                           *)
(***************************************************************************)
EXTENDS Integers, Sequences, FiniteSets, TLC

VARIABLES dat, last, accepted, ingested

vars == <<dat, last, accepted, ingested>>

----------------------------------------------------------------------------
(* Bounds and input sets *)

MaxRegions == 2

\* 1-based positions; 0 is the position below the first base
Starts == 0 .. 2

Ends == 1 .. 3

QPos == 1 .. 3

\* the query ranges [start, end) that fetch is called with; start = end is
\* the degenerate range
QRanges == { q \in QPos \X QPos : q[1] <= q[2] }

\* 1-based inclusive end positions of the input rows
InclEnds == 0 .. 2

\* "10" and "2": lexical order and numeric order disagree on them
Chroms == { <<49, 48>>, <<50>> }

\* "A" and "B"
CloneIds == { <<65>>, <<66>> }

Names == { "R1", "R2" }

\* (cn_ale0, cn_ale1)
CNPairs == { <<2, 1>>, <<1, 0>> }

----------------------------------------------------------------------------
(* Python str comparison and sorted() *)

MinOf(a, b) == IF a < b THEN a ELSE b

StrLess(a, b) ==
    \/ \E i \in 1 .. MinOf(Len(a), Len(b)) :
          /\ \A j \in 1 .. (i - 1) : a[j] = b[j]
          /\ a[i] < b[i]
    \/ /\ Len(a) < Len(b)
       /\ \A j \in 1 .. Len(a) : a[j] = b[j]

RECURSIVE sorted(_)
sorted(S) ==
    IF S = {} THEN << >>
    ELSE LET m == CHOOSE x \in S : \A y \in S \ {x} : StrLess(x, y)
         IN  <<m>> \o sorted(S \ {m})

----------------------------------------------------------------------------
(* grange.Region / grange.RegionSet, as the store uses them *)

\* start and end handed on in the wrong order
CNVRegCN_swapped(chrom, start, end, name, cn_ale0, cn_ale1) ==
    [chrom |-> chrom, start |-> end, end |-> start, name |-> name,
     cn_ale0 |-> cn_ale0, cn_ale1 |-> cn_ale1]

CNVRegCN(chrom, start, end, name, cn_ale0, cn_ale1) ==
    [chrom |-> chrom, start |-> start, end |-> end, name |-> name,
     cn_ale0 |-> cn_ale0, cn_ale1 |-> cn_ale1]

RegionSet == {}

SameKey(a, b) ==
    /\ a.chrom = b.chrom
    /\ a.start = b.start
    /\ a.end = b.end
    /\ a.name = b.name

RegionSet_add(rs, reg) ==
    IF reg.start < 1 \/ reg.start >= reg.end
    THEN [rs |-> rs, ret |-> -1]
    ELSE IF \E m \in rs : SameKey(m, reg)
    THEN [rs |-> rs, ret |-> 1]
    ELSE [rs |-> rs \cup {reg}, ret |-> 0]

Overlap(reg, chrom, start, end) ==
    /\ reg.chrom = chrom
    /\ reg.start < end
    /\ start < reg.end

RegLess(a, b) ==
    \/ StrLess(a.chrom, b.chrom)
    \/ a.chrom = b.chrom /\ a.start < b.start

\* the members in (chrom, start) order; the order of members that agree on
\* (chrom, start) is fixed for a given set
RECURSIVE SortRegions(_)
SortRegions(rs) ==
    IF rs = {} THEN << >>
    ELSE LET m == CHOOSE x \in rs : \A y \in rs : ~RegLess(y, x)
         IN  <<m>> \o SortRegions(rs \ {m})

RegionSet_fetch(rs, chrom, start, end) ==
    SortRegions({ reg \in rs : Overlap(reg, chrom, start, end) })

RegionSet_query(rs, name) ==
    SortRegions({ reg \in rs : reg.name = name })

RegionSet_get_regions(rs, sort) == SortRegions(rs)

----------------------------------------------------------------------------
(* CNVProfile: the CNV profile of one clone *)

CNVProfile == [rs |-> RegionSet]

\* the return code of RegionSet.add dropped: always 0
CNVProfile_add_cnv_ret0(cp, chrom, start, end, name, cn_ale0, cn_ale1) ==
    LET reg == CNVRegCN(chrom, start, end, name, cn_ale0, cn_ale1)
        r   == RegionSet_add(cp.rs, reg)
    IN  [cp |-> [rs |-> r.rs], ret |-> 0]

CNVProfile_add_cnv(cp, chrom, start, end, name, cn_ale0, cn_ale1) ==
    LET reg == CNVRegCN(chrom, start, end, name, cn_ale0, cn_ale1)
        r   == RegionSet_add(cp.rs, reg)
    IN  [cp |-> [rs |-> r.rs], ret |-> r.ret]

CNTuples(hits) ==
    [i \in 1 .. Len(hits) |-> <<hits[i].cn_ale0, hits[i].cn_ale1, hits[i].name>>]

\* the two copy numbers of a hit in the wrong order
CNVProfile_fetch_swapped(cp, chrom, start, end) ==
    LET hits == RegionSet_fetch(cp.rs, chrom, start, end)
        res  == [i \in 1 .. Len(hits) |->
                    <<hits[i].cn_ale1, hits[i].cn_ale0, hits[i].name>>]
    IN  <<Len(res), res>>

CNVProfile_fetch(cp, chrom, start, end) ==
    LET hits == RegionSet_fetch(cp.rs, chrom, start, end)
        res  == CNTuples(hits)
    IN  <<Len(res), res>>

CNVProfile_query(cp, name) ==
    LET hits == RegionSet_query(cp.rs, name)
        res  == CNTuples(hits)
    IN  <<Len(res), res>>

CNVProfile_get_all(cp) ==
    LET reg_list == RegionSet_get_regions(cp.rs, TRUE)
        n == Len(reg_list)
    IN  [chrom   |-> [i \in 1 .. n |-> reg_list[i].chrom],
         start   |-> [i \in 1 .. n |-> reg_list[i].start],
         end     |-> [i \in 1 .. n |-> reg_list[i].end - 1],
         name    |-> [i \in 1 .. n |-> reg_list[i].name],
         cn_ale0 |-> [i \in 1 .. n |-> reg_list[i].cn_ale0],
         cn_ale1 |-> [i \in 1 .. n |-> reg_list[i].cn_ale1]]

----------------------------------------------------------------------------
(* CloneCNVProfile: the CNV profiles of all clones.  Every method is an    *)
(* operator from self.dat and the arguments to self.dat after the call and *)
(* the returned value.                                                     *)

CloneCNVProfile == << >>

\* a new CNVProfile on every call, known clone or not
CloneCNVProfile_add_cnv_fresh(d, chrom, start, end, name, cn_ale0, cn_ale1, clone_id) ==
    LET d1 == [c \in DOMAIN d \cup {clone_id} |->
                  IF c = clone_id THEN CNVProfile ELSE d[c]]
        r  == CNVProfile_add_cnv(d1[clone_id], chrom, start, end, name,
                                 cn_ale0, cn_ale1)
    IN  [dat |-> [d1 EXCEPT ![clone_id] = r.cp], ret |-> r.ret]

\* one CNVProfile object shared by all clones
CloneCNVProfile_add_cnv_shared(d, chrom, start, end, name, cn_ale0, cn_ale1, clone_id) ==
    LET d1 == IF clone_id \notin DOMAIN d
              THEN d @@ (clone_id :> CNVProfile)
              ELSE d
        r  == CNVProfile_add_cnv(d1[clone_id], chrom, start, end, name,
                                 cn_ale0, cn_ale1)
    IN  [dat |-> [c \in DOMAIN d1 |-> r.cp], ret |-> r.ret]

CloneCNVProfile_add_cnv(d, chrom, start, end, name, cn_ale0, cn_ale1, clone_id) ==
    LET d1 == IF clone_id \notin DOMAIN d
              THEN d @@ (clone_id :> CNVProfile)
              ELSE d
        r  == CNVProfile_add_cnv(d1[clone_id], chrom, start, end, name,
                                 cn_ale0, cn_ale1)
    IN  [dat |-> [d1 EXCEPT ![clone_id] = r.cp], ret |-> r.ret]

\* an unknown clone reported as an error
CloneCNVProfile_fetch_err(d, chrom, start, end, clone_id) ==
    IF clone_id \in DOMAIN d
    THEN [dat |-> d, ret |-> CNVProfile_fetch(d[clone_id], chrom, start, end)]
    ELSE [dat |-> d, ret |-> <<-1, << >> >>]

CloneCNVProfile_fetch(d, chrom, start, end, clone_id) ==
    IF clone_id \in DOMAIN d
    THEN [dat |-> d, ret |-> CNVProfile_fetch(d[clone_id], chrom, start, end)]
    ELSE [dat |-> d, ret |-> <<0, << >> >>]

\* the profile of an unknown clone created by the lookup
CloneCNVProfile_query_create(d, name, clone_id) ==
    LET d1 == IF clone_id \notin DOMAIN d
              THEN d @@ (clone_id :> CNVProfile)
              ELSE d
    IN  [dat |-> d1, ret |-> CNVProfile_query(d1[clone_id], name)]

CloneCNVProfile_query(d, name, clone_id) ==
    IF clone_id \in DOMAIN d
    THEN [dat |-> d, ret |-> CNVProfile_query(d[clone_id], name)]
    ELSE [dat |-> d, ret |-> <<0, << >> >>]

Repeat(x, n) == [i \in 1 .. n |-> x]

EmptyDatList ==
    [clone |-> << >>, chrom |-> << >>, start |-> << >>, end |-> << >>,
     name |-> << >>, cn_ale0 |-> << >>, cn_ale1 |-> << >>]

RECURSIVE ExtendAll(_, _, _)
ExtendAll(d, keys, dat_list) ==
    IF keys = << >> THEN dat_list
    ELSE LET clone_id == Head(keys)
             cp_dat == CNVProfile_get_all(d[clone_id])
             n == Len(cp_dat.chrom)
         IN  ExtendAll(d, Tail(keys),
                 [clone   |-> dat_list.clone   \o Repeat(clone_id, n),
                  chrom   |-> dat_list.chrom   \o cp_dat.chrom,
                  start   |-> dat_list.start   \o cp_dat.start,
                  end     |-> dat_list.end     \o cp_dat.end,
                  name    |-> dat_list.name    \o cp_dat.name,
                  cn_ale0 |-> dat_list.cn_ale0 \o cp_dat.cn_ale0,
                  cn_ale1 |-> dat_list.cn_ale1 \o cp_dat.cn_ale1])

Reverse(seq) == [i \in 1 .. Len(seq) |-> seq[Len(seq) + 1 - i]]

\* the clone IDs taken in descending order
CloneCNVProfile_get_all_desc(d) ==
    [dat |-> d, ret |-> ExtendAll(d, Reverse(sorted(DOMAIN d)), EmptyDatList)]

CloneCNVProfile_get_all(d) ==
    [dat |-> d, ret |-> ExtendAll(d, sorted(DOMAIN d), EmptyDatList)]

CloneCNVProfile_get_clones(d) ==
    [dat |-> d, ret |-> sorted(DOMAIN d)]

\* the i-th exported record
Row(cols, i) ==
    [clone |-> cols.clone[i], chrom |-> cols.chrom[i], start |-> cols.start[i],
     end |-> cols.end[i], name |-> cols.name[i],
     cn_ale0 |-> cols.cn_ale0[i], cn_ale1 |-> cols.cn_ale1[i]]

\* the inclusive end handed on as it is
LoadRow_incl(d, rec) ==
    CloneCNVProfile_add_cnv(d, rec.chrom, rec.start, rec.end, rec.region,
                            rec.cn_ale0, rec.cn_ale1, rec.clone)

\* one row of the frame read by load_cnvs, handed to add_cnv
LoadRow(d, rec) ==
    CloneCNVProfile_add_cnv(d, rec.chrom, rec.start, rec.end + 1, rec.region,
                            rec.cn_ale0, rec.cn_ale1, rec.clone)

----------------------------------------------------------------------------
(* State machine.  dat is the store and last the latest call: its method,  *)
(* the clone ID it was given, and for add_cnv, get_all and get_clones the   *)
(* value it returned.  accepted holds the arguments of every add_cnv call   *)
(* that returned 0, ingested the input rows of load_cnv_profile whose       *)
(* add_cnv call returned 0.                                                 *)

NRegions(d) ==
    LET RECURSIVE Sum(_)
        Sum(S) == IF S = {} THEN 0
                  ELSE LET c == CHOOSE x \in S : TRUE
                       IN  Cardinality(d[c].rs) + Sum(S \ {c})
    IN  Sum(DOMAIN d)

AddArgs ==
    [chrom : Chroms, start : Starts, end : Ends, name : Names, cn : CNPairs,
     clone_id : CloneIds]

\* the add_cnv calls made from the current state: the store is filled up to
\* MaxRegions regions
AddCalls == IF NRegions(dat) < MaxRegions THEN AddArgs ELSE {}

\* the call add_cnv(a) on store d
Add(d, a) ==
    CloneCNVProfile_add_cnv(d, a.chrom, a.start, a.end, a.name, a.cn[1],
                            a.cn[2], a.clone_id)

ArgReg(a) ==
    [chrom |-> a.chrom, start |-> a.start, end |-> a.end, name |-> a.name,
     cn_ale0 |-> a.cn[1], cn_ale1 |-> a.cn[2]]

Accept(acc, a, ret) ==
    IF ret = 0 THEN acc \cup {[clone |-> a.clone_id, reg |-> ArgReg(a)]}
    ELSE acc

Init ==
    /\ dat = CloneCNVProfile
    /\ last = [op |-> "init"]
    /\ accepted = {}
    /\ ingested = {}

AddCnv ==
    /\ \E a \in AddCalls :
          LET r == Add(dat, a)
          IN  /\ dat' = r.dat
              /\ last' = [op |-> "add_cnv", clone_id |-> a.clone_id,
                          ret |-> r.ret]
              /\ accepted' = Accept(accepted, a, r.ret)
    /\ UNCHANGED ingested

Fetch ==
    /\ \E chrom \in Chroms, q \in QRanges, clone_id \in CloneIds :
          LET r == CloneCNVProfile_fetch(dat, chrom, q[1], q[2], clone_id)
          IN  /\ dat' = r.dat
              /\ last' = [op |-> "fetch", clone_id |-> clone_id]
    /\ UNCHANGED <<accepted, ingested>>

Query ==
    /\ \E name \in Names, clone_id \in CloneIds :
          LET r == CloneCNVProfile_query(dat, name, clone_id)
          IN  /\ dat' = r.dat
              /\ last' = [op |-> "query", clone_id |-> clone_id]
    /\ UNCHANGED <<accepted, ingested>>

GetAll ==
    /\ LET r == CloneCNVProfile_get_all(dat)
       IN  /\ dat' = r.dat
           /\ last' = [op |-> "get_all", ret |-> r.ret]
    /\ UNCHANGED <<accepted, ingested>>

GetClones ==
    /\ LET r == CloneCNVProfile_get_clones(dat)
       IN  /\ dat' = r.dat
           /\ last' = [op |-> "get_clones", ret |-> r.ret]
    /\ UNCHANGED <<accepted, ingested>>

\* one pass of the loop of load_cnv_profile; the loop runs to its end before
\* the store is handed to any caller
LoadRec ==
    /\ last.op \in {"init", "load"}
    /\ NRegions(dat) < MaxRegions
    /\ \E chrom \in Chroms, start \in Starts, end \in InclEnds, name \in Names,
          cn \in CNPairs, clone_id \in CloneIds :
          LET rec == [chrom |-> chrom, start |-> start, end |-> end,
                      region |-> name, cn_ale0 |-> cn[1], cn_ale1 |-> cn[2],
                      clone |-> clone_id]
              r == LoadRow(dat, rec)
          IN  /\ dat' = r.dat
              /\ last' = [op |-> "load", clone_id |-> clone_id, ret |-> r.ret]
              /\ ingested' = IF r.ret = 0 THEN ingested \cup {rec} ELSE ingested
    /\ UNCHANGED accepted

\* every method of the store
Next == AddCnv \/ Fetch \/ Query \/ GetAll \/ GetClones

Spec == Init /\ [][Next]_vars

\* the store filled by add_cnv and read as a whole
NextAdd == AddCnv \/ GetAll \/ GetClones

SpecAdd == Init /\ [][NextAdd]_vars

\* the store filled by load_cnv_profile, then exported
NextIO == LoadRec \/ GetAll

SpecIO == Init /\ [][NextIO]_vars

----------------------------------------------------------------------------
(* What a caller can see of a store *)

Size(d, c) == IF c \in DOMAIN d THEN Cardinality(d[c].rs) ELSE 0

FetchView(d, c) ==
    [q \in Chroms \X QPos \X QPos |->
        CloneCNVProfile_fetch(d, q[1], q[2], q[3], c).ret]

QueryView(d, c) ==
    [name \in Names |-> CloneCNVProfile_query(d, name, c).ret]

\* the exported records of clone c, in export order
ExportOf(d, c) ==
    LET e == CloneCNVProfile_get_all(d).ret
        Mine(row) == row.clone = c
    IN  SelectSeq([i \in 1 .. Len(e.chrom) |-> Row(e, i)], Mine)

CloneView(d, c) == <<FetchView(d, c), QueryView(d, c), ExportOf(d, c)>>

Visible(d) ==
    <<CloneCNVProfile_get_clones(d).ret, CloneCNVProfile_get_all(d).ret,
      [c \in CloneIds |-> <<FetchView(d, c), QueryView(d, c)>>]>>

CountIn(seq, t) == Cardinality({ i \in DOMAIN seq : seq[i] = t })

CNTuple(reg) == <<reg.cn_ale0, reg.cn_ale1, reg.name>>

ValidGeometry(start, end) == 1 <= start /\ start < end

\* the latest call was an insert, or none was made yet
AfterInsert == last.op \in {"init", "add_cnv"}

----------------------------------------------------------------------------
(* Claims *)

\* C1: once an insert of a key (chrom, start, end, name) into a clone has
\* returned 0, every later insert of that key into that clone, with any copy
\* numbers, returns 1, leaves the number of regions of the clone unchanged,
\* and the queries of the clone still return the copy numbers of the first
\* insert.
C1_DuplicateRejected ==
    AfterInsert =>
    \A x \in accepted :
        LET c == x.clone
            g == x.reg
            fv == FetchView(dat, c)
            qv == QueryView(dat, c)
        IN  \A a \in AddCalls :
                (a.clone_id = c /\ SameKey(ArgReg(a), g)) =>
                    LET r == Add(dat, a)
                    IN  /\ r.ret = 1
                        /\ Size(r.dat, c) = Size(dat, c)
                        /\ FetchView(r.dat, c) = fv
                        /\ QueryView(r.dat, c) = qv
                        /\ CountIn(CloneCNVProfile_query(r.dat, g.name, c).ret[2],
                                   CNTuple(g)) >= 1
                        /\ CountIn(CloneCNVProfile_fetch(
                                       r.dat, g.chrom, g.start, g.end, c).ret[2],
                                   CNTuple(g)) >= 1

\* a duplicate was rejected
C1_Witness ==
    /\ last.op = "add_cnv"
    /\ last.ret = 1
    /\ Size(dat, last.clone_id) >= 1

\* C2 (as stated): an insert that returns -1 or 1 leaves get_clones(),
\* get_all() and every fetch and query result of every clone unchanged,
\* whether the store knew the clone ID or not.
C2_RejectedInsertChangesNothing ==
    [][(last'.op = "add_cnv" /\ last'.ret \in {-1, 1})
          => Visible(dat') = Visible(dat)]_vars

\* C3: an insert returns -1 exactly when start >= end or start < 1; such an
\* insert does not grow the region set of the clone; every insert with
\* 1 <= start < end returns 0 or 1.
C3_InvalidIffBadGeometry ==
    AfterInsert =>
    \A a \in AddCalls :
        LET r == Add(dat, a)
        IN  /\ r.ret = -1 <=> (a.start >= a.end \/ a.start < 1)
            /\ r.ret = -1 => Size(r.dat, a.clone_id) = Size(dat, a.clone_id)
            /\ ValidGeometry(a.start, a.end) => r.ret \in {0, 1}

\* an insert into a clone that holds a region was rejected as invalid
C3_Witness ==
    /\ last.op = "add_cnv"
    /\ last.ret = -1
    /\ Size(dat, last.clone_id) >= 1

\* C4: after any sequence of inserts and fetches, fetch(chrom, qs, qe,
\* clone) returns exactly the regions inserted into that clone with the
\* same chrom, start < qe and qs < end, each once, as (cn_ale0, cn_ale1,
\* name), and its count is the number of records returned.
C4_FetchIsHalfOpenOverlap ==
    (AfterInsert \/ last.op = "fetch") =>
    \A c \in CloneIds, chrom \in Chroms, qs \in QPos, qe \in QPos :
        LET ret == CloneCNVProfile_fetch(dat, chrom, qs, qe, c).ret
            exp == { a \in accepted :
                        /\ a.clone = c
                        /\ a.reg.chrom = chrom
                        /\ a.reg.start < qe
                        /\ qs < a.reg.end }
        IN  /\ ret[1] = Len(ret[2])
            /\ ret[1] = Cardinality(exp)
            /\ \A a \in exp :
                  CountIn(ret[2], CNTuple(a.reg)) =
                      Cardinality({ b \in exp : CNTuple(b.reg) = CNTuple(a.reg) })
            /\ \A i \in 1 .. Len(ret[2]) :
                  \E a \in exp : CNTuple(a.reg) = ret[2][i]

\* a clone holds two adjacent regions [s,m) and [m,e); a fetch of the clone
\* was made, the query [s,e) returns both, the degenerate query [m,m) and a
\* query on the other chromosome return nothing
C4_Witness ==
    /\ last.op = "fetch"
    /\ last.clone_id \in DOMAIN dat
    /\ \E x \in dat[last.clone_id].rs, y \in dat[last.clone_id].rs :
          /\ x.chrom = y.chrom
          /\ x.end = y.start
          /\ CloneCNVProfile_fetch(dat, x.chrom, x.start, y.end,
                                   last.clone_id).ret[1] = 2
          /\ CloneCNVProfile_fetch(dat, x.chrom, y.start, y.start,
                                   last.clone_id).ret[1] = 0
          /\ \A chrom \in Chroms \ {x.chrom} :
                CloneCNVProfile_fetch(dat, chrom, x.start, y.end,
                                      last.clone_id).ret[1] = 0

\* C5: for a clone ID the store does not know, fetch and query return
\* (0, []) for every argument.
C5_UnknownCloneIsEmpty ==
    \A c \in CloneIds \ DOMAIN dat :
        /\ \A chrom \in Chroms, qs \in QPos, qe \in QPos :
              CloneCNVProfile_fetch(dat, chrom, qs, qe, c).ret = <<0, << >> >>
        /\ \A name \in Names :
              CloneCNVProfile_query(dat, name, c).ret = <<0, << >> >>

\* a fetch of an unknown clone on a store that holds a region of another
C5_Witness ==
    /\ last.op = "fetch"
    /\ last.clone_id \notin DOMAIN dat
    /\ NRegions(dat) >= 1

\* C6: an insert into clone A, whatever it returns, leaves the fetch and
\* query results and the exported records of every other clone B unchanged,
\* and it returns 0 when A holds no region of that key, whether or not B
\* holds one.
C6_CloneIsolation ==
    AfterInsert =>
    \A b \in CloneIds :
        LET vb == CloneView(dat, b)
        IN  \A a \in AddCalls :
                a.clone_id # b =>
                    LET r == Add(dat, a)
                    IN  /\ (b \in DOMAIN r.dat) = (b \in DOMAIN dat)
                        /\ r.dat = dat \/ CloneView(r.dat, b) = vb
                        /\ ( /\ ValidGeometry(a.start, a.end)
                             /\ \A x \in accepted :
                                   x.clone = a.clone_id
                                       => ~SameKey(x.reg, ArgReg(a)) )
                           => r.ret = 0

\* both clones hold a region of the same key
C6_Witness ==
    /\ last.op = "add_cnv"
    /\ last.ret = 0
    /\ DOMAIN dat = CloneIds
    /\ \E x \in dat[<<65>>].rs, y \in dat[<<66>>].rs : SameKey(x, y)

\* C7: every input row with 1 <= start <= end that load_cnv_profile handed
\* to add_cnv and that was accepted is exported by get_all, once, with the
\* same chrom, start, inclusive end, name, clone, cn_ale0 and cn_ale1, and
\* no other exported record has its clone, chrom, start, end and name.
C7_RoundTrip ==
    LET e == CloneCNVProfile_get_all(dat).ret
        rows == [i \in 1 .. Len(e.chrom) |-> Row(e, i)]
    IN  \A rec \in ingested :
            /\ 1 <= rec.start /\ rec.start <= rec.end
            /\ CountIn(rows, [clone |-> rec.clone, chrom |-> rec.chrom,
                              start |-> rec.start, end |-> rec.end,
                              name |-> rec.region, cn_ale0 |-> rec.cn_ale0,
                              cn_ale1 |-> rec.cn_ale1]) = 1
            /\ Cardinality({ i \in 1 .. Len(rows) :
                                /\ rows[i].clone = rec.clone
                                /\ rows[i].chrom = rec.chrom
                                /\ rows[i].start = rec.start
                                /\ rows[i].end = rec.end
                                /\ rows[i].name = rec.region }) = 1

\* a one-base row (start = end) and a longer one were loaded and exported
C7_Witness ==
    /\ last.op = "get_all"
    /\ \E rec \in ingested : rec.start = rec.end
    /\ \E rec \in ingested : rec.start < rec.end

\* (clone, chrom, start) of row i is not above that of row j
KeyLeq(e, i, j) ==
    \/ StrLess(e.clone[i], e.clone[j])
    \/ /\ e.clone[i] = e.clone[j]
       /\ \/ StrLess(e.chrom[i], e.chrom[j])
          \/ e.chrom[i] = e.chrom[j] /\ e.start[i] <= e.start[j]

\* C8: get_all lists the accepted records, each once, clone IDs ascending,
\* and within a clone (chrom, start) ascending with chrom compared as a raw
\* string; so the exported sequence of (clone, chrom, start) is fixed by the
\* set of accepted records, whatever the order of the inserts.
C8_ExportOrder ==
    LET e == CloneCNVProfile_get_all(dat).ret
        n == Len(e.chrom)
        rows == [i \in 1 .. n |-> Row(e, i)]
    IN  /\ n = Cardinality(accepted)
        /\ Len(e.clone) = n /\ Len(e.start) = n /\ Len(e.end) = n
        /\ Len(e.name) = n /\ Len(e.cn_ale0) = n /\ Len(e.cn_ale1) = n
        /\ \A a \in accepted :
              CountIn(rows, [clone |-> a.clone, chrom |-> a.reg.chrom,
                             start |-> a.reg.start, end |-> a.reg.end - 1,
                             name |-> a.reg.name, cn_ale0 |-> a.reg.cn_ale0,
                             cn_ale1 |-> a.reg.cn_ale1]) = 1
        /\ \A i \in 1 .. n, j \in 1 .. n : i < j => KeyLeq(e, i, j)

\* clone "A" is exported before clone "B", and chromosome "10" before "2"
C8_Witness ==
    /\ last.op = "get_all"
    /\ \/ /\ last.ret.clone = << <<65>>, <<66>> >>
          /\ last.ret.chrom = << <<50>>, <<49, 48>> >>
       \/ /\ last.ret.clone = << <<65>>, <<65>> >>
          /\ last.ret.chrom = << <<49, 48>>, <<50>> >>
          /\ last.ret.start = <<2, 1>>

\* C9: no clone holds two regions of the same key, every region has
\* 1 <= start < end, and no insert removes a clone or a region: every
\* accepted region is still held, and every insert leaves each clone and
\* each region in place.
C9_StoreInvariant ==
    /\ \A c \in DOMAIN dat :
          /\ \A x \in dat[c].rs, y \in dat[c].rs : SameKey(x, y) => x = y
          /\ \A x \in dat[c].rs : ValidGeometry(x.start, x.end)
    /\ \A x \in accepted : x.clone \in DOMAIN dat /\ x.reg \in dat[x.clone].rs
    /\ AfterInsert =>
          \A a \in AddCalls :
              LET r == Add(dat, a)
              IN  /\ DOMAIN dat \subseteq DOMAIN r.dat
                  /\ \A c \in DOMAIN dat : dat[c].rs \subseteq r.dat[c].rs

\* a second region was inserted into a clone
C9_Witness ==
    /\ last.op = "add_cnv"
    /\ last.ret = 0
    /\ Size(dat, last.clone_id) = 2

\* C10: fetch, query, get_clones and get_all, with a known or an unknown
\* clone ID, leave the store as it was; none creates an entry for an unknown
\* clone ID.
C10_QueriesReadOnly ==
    /\ \A c \in CloneIds :
          /\ \A chrom \in Chroms, qs \in QPos, qe \in QPos :
                CloneCNVProfile_fetch(dat, chrom, qs, qe, c).dat = dat
          /\ \A name \in Names : CloneCNVProfile_query(dat, name, c).dat = dat
    /\ CloneCNVProfile_get_all(dat).dat = dat
    /\ CloneCNVProfile_get_clones(dat).dat = dat

\* a query of an unknown clone on a store that holds a region of another
C10_Witness ==
    /\ last.op = "query"
    /\ last.clone_id \notin DOMAIN dat
    /\ NRegions(dat) >= 1

====
